---- MODULE Spec2Model ----
(***************************************************************************)
(* Model of the Hisaab Kitaab invoice editor: the pricing function         *)
(* calculateRow, the row and payment operations of InvoiceEditor, the      *)
(* save path through storageService and the Dashboard's status toggle.     *)
(*                                                                         *)
(* JavaScript numbers are IEEE-754 doubles.  calculateRow multiplies by    *)
(* 1 - 0.145 and 1 - 0.15 and rounds with toFixed(2), so its results depend *)
(* on binary rounding (1 * 0.855 prints as 0.85, not 0.86).  The model     *)
(* therefore carries doubles as sign / 53-bit significand / exponent, the  *)
(* significand as a little-endian sequence of 15-bit limbs, and rounds     *)
(* every operation to nearest, ties to even, as the hardware does.         *)
(* Exponent overflow and subnormals cannot occur for the bounded inputs    *)
(* and are not modelled; the sign of zero is not modelled either (-0 and 0 *)
(* compare equal, print alike under toFixed's "x < 0" test on -0, and      *)
(* serialise alike).                                                       *)
(***************************************************************************)
EXTENDS Integers, Sequences, FiniteSets, TLC

\* ------------------------------------------------------------------------
\* Natural numbers of arbitrary size (little-endian limbs, no leading zero)
\* ------------------------------------------------------------------------

LimbBits == 15

Base == 32768

\* The recursions are written as recursive functions, which are constant
\* expressions, so that the tables built from them are evaluated once.

Limbs == Seq(Nat)

Pow2[n \in Nat] == IF n = 0 THEN 1 ELSE 2 * Pow2[n - 1]

BNat[n \in Nat] == IF n = 0 THEN <<>> ELSE <<n % Base>> \o BNat[n \div Base]

BToNat[a \in Limbs] == IF a = <<>> THEN 0 ELSE Head(a) + Base * BToNat[Tail(a)]

BNorm[a \in Limbs] ==
    IF a = <<>> THEN <<>>
    ELSE IF a[Len(a)] = 0 THEN BNorm[SubSeq(a, 1, Len(a) - 1)]
    ELSE a

Limb0(a) == IF a = <<>> THEN 0 ELSE Head(a)

Rest0(a) == IF a = <<>> THEN <<>> ELSE Tail(a)

BAddC[a \in Limbs, b \in Limbs, c \in Nat] ==
    IF a = <<>> /\ b = <<>> THEN (IF c = 0 THEN <<>> ELSE <<c>>)
    ELSE LET x == Limb0(a) + Limb0(b) + c
         IN  <<x % Base>> \o BAddC[Rest0(a), Rest0(b), x \div Base]

BAdd(a, b) == BAddC[a, b, 0]

\* a - b for a >= b
BSubC[a \in Limbs, b \in Limbs, c \in Nat] ==
    IF a = <<>> THEN <<>>
    ELSE LET x == Head(a) - Limb0(b) - c
         IN  IF x < 0 THEN <<x + Base>> \o BSubC[Tail(a), Rest0(b), 1]
             ELSE <<x>> \o BSubC[Tail(a), Rest0(b), 0]

BSub(a, b) == BNorm[BSubC[a, b, 0]]

\* a * k + c for 0 <= k < Base
BMulSmallC[a \in Limbs, k \in Nat, c \in Nat] ==
    IF a = <<>> THEN (IF c = 0 THEN <<>> ELSE <<c>>)
    ELSE LET x == Head(a) * k + c
         IN  <<x % Base>> \o BMulSmallC[Tail(a), k, x \div Base]

BMulSmall(a, k) == IF k = 0 THEN <<>> ELSE BMulSmallC[a, k, 0]

BShiftLimb(a) == IF a = <<>> THEN <<>> ELSE <<0>> \o a

BMul[a \in Limbs, b \in Limbs] ==
    IF b = <<>> \/ a = <<>> THEN <<>>
    ELSE BAdd(BMulSmall(a, Head(b)), BShiftLimb(BMul[a, Tail(b)]))

\* quotient and remainder of a by k, 0 < k < Base; i runs from the top limb
BDivSmallR[a \in Limbs, k \in Nat, i \in Nat, r \in Nat] ==
    IF i = 0 THEN [q |-> <<>>, r |-> r]
    ELSE LET x == r * Base + a[i]
             lo == BDivSmallR[a, k, i - 1, x % k]
         IN  [q |-> lo.q \o <<x \div k>>, r |-> lo.r]

BDivSmall(a, k) ==
    [q |-> BNorm[BDivSmallR[a, k, Len(a), 0].q], r |-> BDivSmallR[a, k, Len(a), 0].r]

BitLenSmall[n \in Nat] == IF n = 0 THEN 0 ELSE 1 + BitLenSmall[n \div 2]

BitLen(a) == IF a = <<>> THEN 0 ELSE LimbBits * (Len(a) - 1) + BitLenSmall[a[Len(a)]]

BZeros[n \in Nat] == IF n = 0 THEN <<>> ELSE <<0>> \o BZeros[n - 1]

BShl(a, n) ==
    IF a = <<>> THEN <<>>
    ELSE BZeros[n \div LimbBits] \o BMulSmall(a, Pow2[n % LimbBits])

BShr(a, n) ==
    IF n \div LimbBits >= Len(a) THEN <<>>
    ELSE BDivSmall(SubSeq(a, n \div LimbBits + 1, Len(a)), Pow2[n % LimbBits]).q

\* -1, 0, 1 as a < b, a = b, a > b; i runs from the top limb
BCmpR[a \in Limbs, b \in Limbs, i \in Nat] ==
    IF i = 0 THEN 0
    ELSE IF a[i] < b[i] THEN -1
    ELSE IF a[i] > b[i] THEN 1
    ELSE BCmpR[a, b, i - 1]

BCmp(a, b) ==
    IF Len(a) < Len(b) THEN -1
    ELSE IF Len(a) > Len(b) THEN 1
    ELSE BCmpR[a, b, Len(a)]

BOdd(a) == a # <<>> /\ Head(a) % 2 = 1

\* ------------------------------------------------------------------------
\* IEEE-754 doubles: value = (-1)^neg * m * 2^e, m = 0 or 2^52 <= m < 2^53
\* ------------------------------------------------------------------------

SigBits == 53

FZero == [neg |-> FALSE, m |-> <<>>, e |-> 0]

\* A definition here takes the values it uses more than once as parameters,
\* so that each is written, and evaluated, once.

\* the double nearest to M * 2^E, ties to even: q is M cut to 53 bits after
\* dropping sh bits, c compares the dropped bits with one half
FPack(neg, q, e) ==
    IF BitLen(q) > SigBits THEN [neg |-> neg, m |-> BShr(q, 1), e |-> e + 1]
    ELSE [neg |-> neg, m |-> q, e |-> e]

FRoundUp(neg, q, e, c) ==
    FPack(neg, IF c = 1 \/ (c = 0 /\ BOdd(q)) THEN BAdd(q, <<1>>) ELSE q, e)

FRoundCut(neg, M, E, sh, q) ==
    FRoundUp(neg, q, E + sh, BCmp(BSub(M, BShl(q, sh)), BShl(<<1>>, sh - 1)))

FRoundLen(neg, M, E, L) ==
    IF L <= SigBits
    THEN [neg |-> neg, m |-> BShl(M, SigBits - L), e |-> E - (SigBits - L)]
    ELSE FRoundCut(neg, M, E, L - SigBits, BShr(M, L - SigBits))

FRound(neg, M, E) == IF M = <<>> THEN FZero ELSE FRoundLen(neg, M, E, BitLen(M))

\* an integer-valued number
FInt(n) == IF n < 0 THEN FRound(TRUE, BNat[-n], 0) ELSE FRound(FALSE, BNat[n], 0)

FNeg(x) == IF x.m = <<>> THEN x ELSE [x EXCEPT !.neg = ~x.neg]

FMul(x, y) == FRound(x.neg # y.neg, BMul[x.m, y.m], x.e + y.e)

\* X * 2^e0 and Y * 2^e0 are the magnitudes, c compares them
FAddMag(xneg, yneg, X, Y, e0, c) ==
    IF xneg = yneg THEN FRound(xneg, BAdd(X, Y), e0)
    ELSE IF c = 0 THEN FZero
    ELSE FRound(IF c = 1 THEN xneg ELSE yneg,
                IF c = 1 THEN BSub(X, Y) ELSE BSub(Y, X), e0)

FAddAligned(xneg, yneg, X, Y, e0) == FAddMag(xneg, yneg, X, Y, e0, BCmp(X, Y))

FAddAt(x, y, e0) ==
    FAddAligned(x.neg, y.neg, BShl(x.m, x.e - e0), BShl(y.m, y.e - e0), e0)

FAdd(x, y) ==
    IF x.m = <<>> THEN y
    ELSE IF y.m = <<>> THEN x
    ELSE FAddAt(x, y, IF x.e < y.e THEN x.e ELSE y.e)

FSub(x, y) == FAdd(x, FNeg(y))

\* x / k for an integer 0 < k < Base: the quotient to 30 extra bits and a
\* sticky bit for the remainder, then one rounding
GuardBits == 30

FDivSticky(neg, d, e) ==
    FRound(neg, BAdd(BMulSmall(d.q, 2), IF d.r = 0 THEN <<>> ELSE <<1>>), e)

FDivNat(x, k) ==
    FDivSticky(x.neg, BDivSmall(BShl(x.m, GuardBits), k), x.e - GuardBits - 1)

\* a decimal literal num/den of the source text (0.145 is FLit(145, 1000))
FLit(num, den) == FDivNat(FInt(num), den)

\* Number(x.toFixed(2)) in hundredths: the integer n with n/100 nearest to x,
\* the larger in magnitude of two equally near
toFixed2(x) ==
    IF x.m = <<>> THEN 0
    ELSE (IF x.neg THEN 0 - 1 ELSE 1) *
         BToNat[IF x.e >= 0 THEN BMulSmall(BShl(x.m, x.e), 100)
                ELSE BShr(BAdd(BMulSmall(x.m, 200), BShl(<<1>>, 0 - x.e)), 1 - x.e)]

\* the double a stored 2-decimal value c/100 denotes
FCents(c) == FDivNat(FInt(c), 100)

\* ------------------------------------------------------------------------
\* Bounds of the model
\* ------------------------------------------------------------------------

\* raw values offered to calculateRow: quantities -MaxNegative..MaxQty, rates
\* -MaxNegative..MaxRate and 100, discounts -MaxDiscount..MaxDiscount, -10, 10
MaxNegative == 1

MaxQty == 4

MaxRate == 6

MaxDiscount == 3

Qtys == (0 - MaxNegative)..MaxQty

Rates == ((0 - MaxNegative)..MaxRate) \cup {100}

Discounts == ((0 - MaxDiscount)..MaxDiscount) \cup {0 - 10, 10}

\* ------------------------------------------------------------------------
\* types.ts
\* ------------------------------------------------------------------------

PENDING == "Pending"

PAID == "Paid"

InvoiceStatus == {PENDING, PAID}

\* An InvoiceItem.  qty, rate and discount are the (integer) numbers typed
\* in; tp, totalPerPiece and totalAmount are results of Number(x.toFixed(2))
\* and are held in hundredths.
InvoiceItem(id, name, qty, rate, tp, discount, totalPerPiece, totalAmount) ==
    [id |-> id, name |-> name, qty |-> qty, rate |-> rate, tp |-> tp,
     discount |-> discount, totalPerPiece |-> totalPerPiece,
     totalAmount |-> totalAmount]

PaymentRow(id, narration, amount) ==
    [id |-> id, narration |-> narration, amount |-> amount]

\* ------------------------------------------------------------------------
\* InvoiceEditor.calculateRow
\* ------------------------------------------------------------------------

\* tp without the rate > 0 test: a negative rate gives a negative price
tradePriceSigned(rate) == FMul(FInt(rate), FSub(FInt(1), FLit(145, 1000)))

\* const tp = item.rate > 0 ? item.rate * (1 - 0.145) : 0
tradePrice(rate) ==
    IF rate > 0 THEN FMul(FInt(rate), FSub(FInt(1), FLit(145, 1000))) ELSE FZero

\* finalUnit = baseForDiscount + (baseForDiscount * percentageDecimal)
discounted(baseForDiscount, percentageDecimal) ==
    FAdd(baseForDiscount, FMul(baseForDiscount, percentageDecimal))

\* the second margin taken at every discount, 0 included
finalUnitMargin(tp, discount) ==
    discounted(FMul(tp, FSub(FInt(1), FLit(15, 100))), FDivNat(FInt(discount), 100))

finalUnit(tp, discount) ==
    IF discount # 0
    THEN discounted(FMul(tp, FSub(FInt(1), FLit(15, 100))), FDivNat(FInt(discount), 100))
    ELSE tp

\* the line total taken from the rounded unit price
roundedFromStored(tp, unit, qty) ==
    [tp |-> toFixed2(tp),
     totalPerPiece |-> toFixed2(unit),
     totalAmount |-> toFixed2(FMul(FCents(toFixed2(unit)), FInt(qty)))]

\* totalAmt = finalUnit * item.qty, and the three toFixed(2)
rounded(tp, unit, qty) ==
    [tp |-> toFixed2(tp),
     totalPerPiece |-> toFixed2(unit),
     totalAmount |-> toFixed2(FMul(unit, FInt(qty)))]

\* the unit price taken from the rounded trade price
pricedFromStored(tp, qty, discount) ==
    rounded(tp, finalUnit(FCents(toFixed2(tp)), discount), qty)

priced(tp, qty, discount) == rounded(tp, finalUnit(tp, discount), qty)

\* all three numbers forced to 0 when qty or rate is 0
rowValuesZeroed(qty, rate, discount) ==
    IF qty = 0 \/ rate = 0 THEN [tp |-> 0, totalPerPiece |-> 0, totalAmount |-> 0]
    ELSE priced(tradePrice(rate), qty, discount)

\* the three numbers calculateRow computes from qty, rate and discount
rowValues(qty, rate, discount) == priced(tradePrice(rate), qty, discount)

\* calculateRow is pure: it is tabulated once over the raw values of the model
rowTable == [q \in Qtys, r \in Rates, d \in Discounts |-> rowValues(q, r, d)]

withValues(item, v) ==
    [item EXCEPT !.tp = v.tp,
                 !.totalPerPiece = v.totalPerPiece,
                 !.totalAmount = v.totalAmount]

calculateRow(item) == withValues(item, rowTable[item.qty, item.rate, item.discount])

\* ------------------------------------------------------------------------
\* State
\* ------------------------------------------------------------------------

\* rows and payments an editing session may hold, readings of Date.now(),
\* day numbers of the date field, and edit operations explored in one run
MaxItems == 3

MaxPayments == 2

MaxNow == 2

MaxDate == 2

MaxEdits == 2

\* usernames with a list in localStorage, and those typed at the Login form
Users == {"u1", "u2"}

LoginNames == {"u1"}

NoUser == "-"

\* the strings generateId may return
Ids == {"a", "b"}

\* existingInvoiceId = null
NoId == "-"

\* localStorage.getItem(key) = null
NoData == [null |-> TRUE]

ItemNames == {"", "n"}

InvoiceNames == {"", "N"}

Narrations == {"", "p"}

Dates == 1..MaxDate

\* new Date().toISOString().split('T')[0]: a run takes place within one day
Today == 1

\* values typed into the rows and payments of an editing session
EditQtys == {0, 2}

EditRates == {0, 100}

EditDiscounts == {0, 0 - 10}

EditAmounts == {0, 30, 50}

NoItem == [id |-> NoId]

VARIABLES
    user,               \* App: the logged-in username or NoUser
    currentView,        \* App: "dashboard" or "editor"
    selectedInvoiceId,  \* App: the editor's existingInvoiceId prop
    invoices,           \* Dashboard: the list it loaded
    invoiceName,        \* InvoiceEditor state
    invoiceDate,
    items,
    payments,
    status,
    isSaving,
    timer,              \* handleSave's 400 ms timer is pending
    savedId,            \* history: the id this editing session last saved under
    localStorage,       \* username |-> the text under hisaab_data_<username>
    now,                \* the last reading of Date.now()
    edits,              \* edit operations performed so far
    calcArg,            \* an item handed to calculateRow on its own
    calcRes             \* what calculateRow returned for it

appVars == <<user, currentView, selectedInvoiceId>>

editorVars == <<invoiceName, invoiceDate, items, payments, status, isSaving,
                timer, savedId>>

calcVars == <<calcArg, calcRes>>

vars == <<user, currentView, selectedInvoiceId, invoices, invoiceName,
          invoiceDate, items, payments, status, isSaving, timer, savedId,
          localStorage, now, edits, calcArg, calcRes>>

\* ------------------------------------------------------------------------
\* storageService
\* ------------------------------------------------------------------------

\* JSON.stringify / JSON.parse of an invoice list.  The text carries strings
\* as they are and a number as a decimal numeral, the shortest that reads
\* back as the same double: for the double nearest to c/100 that is c/100
\* (or fewer digits of it), and otherwise a longer numeral, of up to 17
\* digits.  Reading a numeral gives the double nearest to it; a numeral is
\* kept together with that double, so that it is worked out once, where the
\* numeral is written.  The numbers of items and payments are held as the
\* integers and hundredths their numerals show; totalAmount and
\* remainingBalance of an invoice are sums and differences of doubles.
numeralCents(c) == [cents |-> c, reads |-> FCents(c)]

\* the numeral with 2 decimals whatever the double: x.toFixed(2)
numeralFixed(x) == numeralCents(toFixed2(x))

shortest(x, numeral) ==
    IF numeral.reads = x THEN numeral ELSE [digits17 |-> x, reads |-> x]

numeralOf(x) == shortest(x, numeralCents(toFixed2(x)))

numberOf(numeral) == numeral.reads

invoiceText(invoice) ==
    [invoice EXCEPT !.totalAmount = numeralOf(@),
                    !.remainingBalance = numeralOf(@)]

invoiceOf(text) ==
    [text EXCEPT !.totalAmount = numberOf(@),
                 !.remainingBalance = numberOf(@)]

JSONstringify(value) == [text |-> [k \in 1..Len(value) |-> invoiceText(value[k])]]

JSONparse(data) == [k \in 1..Len(data.text) |-> invoiceOf(data.text[k])]

getInvoices(username) ==
    IF localStorage[username] = NoData THEN <<>>
    ELSE JSONparse(localStorage[username])

\* findIndex: the first index whose record has the id, 0 for -1
findIndex(list, id) ==
    IF \E i \in 1..Len(list) : list[i].id = id
    THEN CHOOSE i \in 1..Len(list) :
             /\ list[i].id = id
             /\ \A j \in 1..(i - 1) : list[j].id # id
    ELSE 0

savedListAppended(list, invoice) == Append(list, invoice)

\* the list saveInvoice writes back
savedList(list, invoice) ==
    LET existingIndex == findIndex(list, invoice.id)
    IN  IF existingIndex >= 1 THEN [list EXCEPT ![existingIndex] = invoice]
        ELSE Append(list, invoice)

\* localStorage after saveInvoice(username, invoice)
saveInvoice(username, invoice) ==
    [localStorage EXCEPT ![username] =
        JSONstringify(savedList(getInvoices(username), invoice))]

\* storageService.deleteInvoice, which no component calls: a caller may
\* invoke it at any time, with the logged-in user's name as the components do
deleteInvoice(username, invoiceId) ==
    /\ username = user
    /\ localStorage' = [localStorage EXCEPT ![username] =
           JSONstringify(SelectSeq(getInvoices(username),
                                   LAMBDA inv : inv.id # invoiceId))]
    /\ UNCHANGED <<appVars, invoices, editorVars, now, edits, calcVars>>

\* ------------------------------------------------------------------------
\* Dashboard
\* ------------------------------------------------------------------------

\* data.sort by date descending (Array.prototype.sort is stable)
RECURSIVE sortFrom(_, _)
sortFrom(data, d) ==
    IF d = 0 THEN <<>>
    ELSE SelectSeq(data, LAMBDA inv : inv.date = d) \o sortFrom(data, d - 1)

loadData(username) == sortFrom(getInvoices(username), MaxDate)

toggleStatus(k) ==
    /\ user # NoUser /\ currentView = "dashboard"
    /\ k \in 1..Len(invoices)
    /\ LET invoice == invoices[k]
           updatedInvoice ==
               [invoice EXCEPT !.status = IF invoice.status = PAID THEN PENDING ELSE PAID]
       IN  /\ localStorage' = saveInvoice(user, updatedInvoice)
           /\ invoices' = [i \in 1..Len(invoices) |->
                              IF invoices[i].id = invoice.id THEN updatedInvoice
                              ELSE invoices[i]]
    /\ UNCHANGED <<appVars, editorVars, now, edits, calcVars>>

\* ------------------------------------------------------------------------
\* InvoiceEditor
\* ------------------------------------------------------------------------

\* the row addNewRow appends, under the id generateId returned
newItem(id) == InvoiceItem(id, "", 0, 0, 0, 0, 0, 0)

InEditor == user # NoUser /\ currentView = "editor"

CanEdit == InEditor /\ edits < MaxEdits

\* updateItem recalculating on rate and qty only
updatedItemStale(item, field, value) ==
    LET currentItem == [item EXCEPT ![field] = value]
    IN  IF field \in {"rate", "qty"} THEN calculateRow(currentItem)
        ELSE currentItem

\* updateItem without the spread of the item it edits
updatedItemReset(item, field, value) ==
    LET currentItem == [newItem(item.id) EXCEPT ![field] = value]
    IN  IF field \in {"rate", "qty", "discount"} THEN calculateRow(currentItem)
        ELSE currentItem

\* the item updateItem stores at index
updatedItem(item, field, value) ==
    LET currentItem == [item EXCEPT ![field] = value]
    IN  IF field \in {"rate", "qty", "discount"} THEN calculateRow(currentItem)
        ELSE currentItem

FieldValues(field) ==
    CASE field = "name" -> ItemNames
      [] field = "qty" -> EditQtys
      [] field = "rate" -> EditRates
      [] field = "discount" -> EditDiscounts

\* the cells of a row are rendered per item, so index is that of an item
updateItem(index, field, value) ==
    /\ CanEdit
    /\ index \in 1..Len(items)
    /\ items' = [items EXCEPT ![index] = updatedItem(items[index], field, value)]
    /\ edits' = edits + 1
    /\ UNCHANGED <<appVars, invoices, invoiceName, invoiceDate, payments, status,
                   isSaving, timer, savedId, localStorage, now, calcVars>>

\* updateItem as a function of its arguments, for any index.  newItems[index]
\* is undefined outside the array, { ...undefined, [field]: value } is an
\* object with the one property, and an assignment at or beyond the length
\* lengthens the array.  An object is a record of the properties it has.
Undefined == [undefined |-> TRUE]

NaN == [nan |-> TRUE]

Has(item, field) == field \in DOMAIN item

\* calculateRow on an object that lacks properties: undefined > 0 is false,
\* undefined !== 0 is true, undefined / 100 and every product or sum with it
\* are NaN, and NaN.toFixed(2) is "NaN"
tpOfPartial(item) == IF Has(item, "rate") THEN tradePrice(item.rate) ELSE FZero

unitOfPartial(item, tp) ==
    IF Has(item, "discount") THEN finalUnit(tp, item.discount) ELSE NaN

totalOfPartial(item, unit) ==
    IF unit = NaN \/ ~Has(item, "qty") THEN NaN ELSE FMul(unit, FInt(item.qty))

fixedOrNaN(x) == IF x = NaN THEN NaN ELSE toFixed2(x)

withPartialValues(item, tp, unit) ==
    [f \in DOMAIN item \cup {"tp", "totalPerPiece", "totalAmount"} |->
        CASE f = "tp" -> fixedOrNaN(tp)
          [] f = "totalPerPiece" -> fixedOrNaN(unit)
          [] f = "totalAmount" -> fixedOrNaN(totalOfPartial(item, unit))
          [] OTHER -> item[f]]

pricedPartial(item, tp) == withPartialValues(item, tp, unitOfPartial(item, tp))

calculateRowPartial(item) == pricedPartial(item, tpOfPartial(item))

IsItem(entry) == DOMAIN entry = DOMAIN newItem(NoId)

\* { ...entry, [field]: value }
spreadWith(entry, field, value) ==
    [f \in (IF entry = Undefined THEN {} ELSE DOMAIN entry) \cup {field} |->
        IF f = field THEN value ELSE entry[f]]

updatedEntry(entry, field, value) ==
    IF IsItem(entry) THEN updatedItem(entry, field, value)
    ELSE IF field \in {"rate", "qty", "discount"}
         THEN calculateRowPartial(spreadWith(entry, field, value))
         ELSE spreadWith(entry, field, value)

\* index counted from 1; 0 stands for the index -1, which is a property of
\* the array and not one of its elements
updateItemAt(list, index, field, value) ==
    IF index < 1 THEN list
    ELSE IF index <= Len(list)
         THEN [list EXCEPT ![index] = updatedEntry(list[index], field, value)]
         ELSE list \o [k \in 1..(index - Len(list) - 1) |-> Undefined]
                   \o <<updatedEntry(Undefined, field, value)>>

updateItemCalled(index, field, value) ==
    /\ CanEdit
    /\ items' = updateItemAt(items, index, field, value)
    /\ edits' = edits + 1
    /\ UNCHANGED <<appVars, invoices, invoiceName, invoiceDate, payments, status,
                   isSaving, timer, savedId, localStorage, now, calcVars>>

addNewRow(id) ==
    /\ CanEdit
    /\ Len(items) < MaxItems
    /\ items' = Append(items, newItem(id))
    /\ edits' = edits + 1
    /\ UNCHANGED <<appVars, invoices, invoiceName, invoiceDate, payments, status,
                   isSaving, timer, savedId, localStorage, now, calcVars>>

\* splice(index) without a count: the row and every row after it go
removeFrom(list, index) == SubSeq(list, 1, index - 1)

\* newItems.splice(index, 1)
removeAt(list, index) ==
    SubSeq(list, 1, index - 1) \o SubSeq(list, index + 1, Len(list))

\* the copy spliced in at index, before the row copied
insertBefore(list, index, entry) ==
    SubSeq(list, 1, index - 1) \o <<entry>> \o SubSeq(list, index, Len(list))

\* newItems.splice(index + 1, 0, entry), index counted from 1
insertAfter(list, index, entry) ==
    SubSeq(list, 1, index) \o <<entry>> \o SubSeq(list, index + 1, Len(list))

deleteRow(index) ==
    /\ CanEdit
    /\ index \in 1..Len(items)
    /\ items' = IF Len(items) > 1 THEN removeAt(items, index) ELSE items
    /\ edits' = edits + 1
    /\ UNCHANGED <<appVars, invoices, invoiceName, invoiceDate, payments, status,
                   isSaving, timer, savedId, localStorage, now, calcVars>>

duplicateRow(index, id) ==
    /\ CanEdit
    /\ index \in 1..Len(items)
    /\ Len(items) < MaxItems
    /\ LET itemToCopy == items[index]
           copy == [itemToCopy EXCEPT !.id = id]
       IN  items' = insertAfter(items, index, copy)
    /\ edits' = edits + 1
    /\ UNCHANGED <<appVars, invoices, invoiceName, invoiceDate, payments, status,
                   isSaving, timer, savedId, localStorage, now, calcVars>>

addPaymentRow(id) ==
    /\ CanEdit
    /\ Len(payments) < MaxPayments
    /\ payments' = Append(payments, PaymentRow(id, "", 0))
    /\ edits' = edits + 1
    /\ UNCHANGED <<appVars, invoices, invoiceName, invoiceDate, items, status,
                   isSaving, timer, savedId, localStorage, now, calcVars>>

PaymentValues(field) ==
    CASE field = "narration" -> Narrations
      [] field = "amount" -> EditAmounts

updatePayment(index, field, value) ==
    /\ CanEdit
    /\ index \in 1..Len(payments)
    /\ payments' = [payments EXCEPT ![index] = [@ EXCEPT ![field] = value]]
    /\ edits' = edits + 1
    /\ UNCHANGED <<appVars, invoices, invoiceName, invoiceDate, items, status,
                   isSaving, timer, savedId, localStorage, now, calcVars>>

deletePayment(index) ==
    /\ CanEdit
    /\ index \in 1..Len(payments)
    /\ payments' = removeAt(payments, index)
    /\ edits' = edits + 1
    /\ UNCHANGED <<appVars, invoices, invoiceName, invoiceDate, items, status,
                   isSaving, timer, savedId, localStorage, now, calcVars>>

setInvoiceName(value) ==
    /\ CanEdit
    /\ invoiceName' = value
    /\ edits' = edits + 1
    /\ UNCHANGED <<appVars, invoices, invoiceDate, items, payments, status,
                   isSaving, timer, savedId, localStorage, now, calcVars>>

setInvoiceDate(value) ==
    /\ CanEdit
    /\ invoiceDate' = value
    /\ edits' = edits + 1
    /\ UNCHANGED <<appVars, invoices, invoiceName, items, payments, status,
                   isSaving, timer, savedId, localStorage, now, calcVars>>

setStatus(value) ==
    /\ CanEdit
    /\ status' = value
    /\ edits' = edits + 1
    /\ UNCHANGED <<appVars, invoices, invoiceName, invoiceDate, items, payments,
                   isSaving, timer, savedId, localStorage, now, calcVars>>

\* items.reduce((sum, item) => sum + item.totalAmount, 0), left to right
RECURSIVE sumTotalAmount(_, _)
sumTotalAmount(sum, list) ==
    IF list = <<>> THEN sum
    ELSE sumTotalAmount(FAdd(sum, FCents(Head(list).totalAmount)), Tail(list))

\* payments.reduce((sum, p) => sum + Number(p.amount), 0)
RECURSIVE sumAmount(_, _)
sumAmount(sum, list) ==
    IF list = <<>> THEN sum
    ELSE sumAmount(FAdd(sum, FInt(Head(list).amount)), Tail(list))

grandTotalOf(list) == sumTotalAmount(FZero, list)

totalPaidOf(list) == sumAmount(FZero, list)

grandTotal == grandTotalOf(items)

totalPaid == totalPaidOf(payments)

remainingBalance == FSub(grandTotal, totalPaid)

\* the record with a balance that stops at 0
invoiceDataClamped(id, createdAt) ==
    [id |-> id, name |-> invoiceName, date |-> invoiceDate, items |-> items,
     payments |-> payments, status |-> status, totalAmount |-> grandTotal,
     remainingBalance |->
         IF toFixed2(remainingBalance) < 0 THEN FZero ELSE remainingBalance,
     createdAt |-> createdAt]

\* the record handleSave builds
invoiceData(id, createdAt) ==
    [id |-> id, name |-> invoiceName, date |-> invoiceDate, items |-> items,
     payments |-> payments, status |-> status, totalAmount |-> grandTotal,
     remainingBalance |-> remainingBalance, createdAt |-> createdAt]

\* handleSave up to its await: the Save button is disabled while isSaving;
\* id is what generateId returns, read only when the name is not empty, as
\* is Date.now(), each reading of which is later than the one before
savingUnder(id, createdAt) ==
    /\ isSaving' = TRUE
    /\ timer' = TRUE
    /\ savedId' = id
    /\ localStorage' = saveInvoice(user, invoiceData(id, createdAt))
    /\ now' = createdAt

\* handleSave without the test of the name
handleSaveUnchecked(id) ==
    /\ InEditor
    /\ ~isSaving
    /\ now < MaxNow
    /\ savingUnder(IF selectedInvoiceId # NoId THEN selectedInvoiceId ELSE id,
                   now + 1)
    /\ UNCHANGED <<appVars, invoices, invoiceName, invoiceDate, items, payments,
                   status, edits, calcVars>>

handleSave(id) ==
    /\ InEditor
    /\ ~isSaving
    /\ IF invoiceName = ""
       THEN UNCHANGED <<isSaving, timer, savedId, localStorage, now>>
       ELSE /\ now < MaxNow
            /\ savingUnder(IF selectedInvoiceId # NoId THEN selectedInvoiceId ELSE id,
                           now + 1)
    /\ UNCHANGED <<appVars, invoices, invoiceName, invoiceDate, items, payments,
                   status, edits, calcVars>>

\* handleSave after the 400 ms timer: setIsSaving(false)
saveDone ==
    /\ InEditor
    /\ timer
    /\ isSaving' = FALSE
    /\ timer' = FALSE
    /\ UNCHANGED <<appVars, invoices, invoiceName, invoiceDate, items, payments,
                   status, savedId, localStorage, now, edits, calcVars>>

\* handleSave when localStorage.setItem throws (the quota is exceeded, or
\* storage is refused): saveInvoice throws after setIsSaving(true) and after
\* Date.now() was read, handleSave's promise is rejected, no timer is started
handleSaveRejected ==
    /\ InEditor
    /\ ~isSaving
    /\ invoiceName # ""
    /\ now < MaxNow
    /\ isSaving' = TRUE
    /\ now' = now + 1
    /\ UNCHANGED <<appVars, invoices, invoiceName, invoiceDate, items, payments,
                   status, timer, savedId, localStorage, edits, calcVars>>

\* ------------------------------------------------------------------------
\* App
\* ------------------------------------------------------------------------

\* the editor's state before it is mounted and after it is unmounted
EditorUnmounted ==
    /\ invoiceName' = ""
    /\ invoiceDate' = Today
    /\ items' = <<>>
    /\ payments' = <<>>
    /\ status' = PENDING
    /\ isSaving' = FALSE
    /\ timer' = FALSE
    /\ savedId' = NoId

\* Login.handleSubmit resolved and App.handleLogin; the Dashboard mounts
handleLogin(username) ==
    /\ user = NoUser
    /\ user' = username
    /\ currentView' = "dashboard"
    /\ invoices' = loadData(username)
    /\ UNCHANGED <<selectedInvoiceId, editorVars, localStorage, now, edits, calcVars>>

handleLogout ==
    /\ user # NoUser /\ currentView = "dashboard"
    /\ user' = NoUser
    /\ currentView' = "dashboard"
    /\ selectedInvoiceId' = NoId
    /\ invoices' = <<>>
    /\ UNCHANGED <<editorVars, localStorage, now, edits, calcVars>>

\* App.handleInvoiceSelect(id) from a card of the Dashboard (an id it lists)
\* or from Create Invoice (null); the editor mounts and its initialization
\* effect runs, with id the row id generateId returns
handleInvoiceSelect(invoiceId, id) ==
    /\ user # NoUser /\ currentView = "dashboard"
    /\ invoiceId = NoId \/ \E k \in 1..Len(invoices) : invoices[k].id = invoiceId
    /\ selectedInvoiceId' = invoiceId
    /\ currentView' = "editor"
    /\ invoices' = <<>>
    /\ isSaving' = FALSE
    /\ timer' = FALSE
    /\ savedId' = NoId
    /\ LET allInvoices == getInvoices(user)
           k == findIndex(allInvoices, invoiceId)
       IN  IF invoiceId # NoId
           THEN IF k >= 1
                THEN /\ invoiceName' = allInvoices[k].name
                     /\ invoiceDate' = allInvoices[k].date
                     /\ items' = allInvoices[k].items
                     /\ payments' = allInvoices[k].payments
                     /\ status' = allInvoices[k].status
                ELSE /\ invoiceName' = ""
                     /\ invoiceDate' = Today
                     /\ items' = <<>>
                     /\ payments' = <<>>
                     /\ status' = PENDING
           ELSE /\ invoiceName' = ""
                /\ invoiceDate' = Today
                /\ items' = <<newItem(id)>>
                /\ payments' = <<>>
                /\ status' = PENDING
    /\ UNCHANGED <<user, localStorage, now, edits, calcVars>>

\* App.handleBackToDashboard: the editor unmounts, the Dashboard mounts
handleBackToDashboard ==
    /\ InEditor
    /\ selectedInvoiceId' = NoId
    /\ currentView' = "dashboard"
    /\ invoices' = loadData(user)
    /\ EditorUnmounted
    /\ UNCHANGED <<user, localStorage, now, edits, calcVars>>

\* ------------------------------------------------------------------------
\* Specifications
\* ------------------------------------------------------------------------

\* localStorage outlives the page.  A run starts with nothing stored or
\* with what earlier runs saved for u1 and for u2, each under its own key:
\* one invoice of 2 pieces at rate 100 with payments of 50 and 30, written
\* by handleSave at reading 0 of the clock
SeedItems == <<calculateRow(InvoiceItem("a", "n", 2, 100, 0, 0, 0, 0))>>

SeedPayments == <<PaymentRow("a", "", 50), PaymentRow("b", "", 30)>>

SeedInvoice ==
    [id |-> "a", name |-> "N", date |-> Today, items |-> SeedItems,
     payments |-> SeedPayments, status |-> PENDING,
     totalAmount |-> grandTotalOf(SeedItems),
     remainingBalance |-> FSub(grandTotalOf(SeedItems), totalPaidOf(SeedPayments)),
     createdAt |-> 0]

InitialStorage ==
    {[u \in Users |-> NoData],
     [u \in Users |-> JSONstringify(<<SeedInvoice>>)]}

Init ==
    /\ user = NoUser
    /\ currentView = "dashboard"
    /\ selectedInvoiceId = NoId
    /\ invoices = <<>>
    /\ invoiceName = ""
    /\ invoiceDate = Today
    /\ items = <<>>
    /\ payments = <<>>
    /\ status = PENDING
    /\ isSaving = FALSE
    /\ timer = FALSE
    /\ savedId = NoId
    /\ localStorage \in InitialStorage
    /\ now = 0
    /\ edits = 0
    /\ calcArg = NoItem
    /\ calcRes = NoItem

Next ==
    \/ \E u \in LoginNames : handleLogin(u)
    \/ handleLogout
    \/ \E i \in Ids \cup {NoId}, id \in Ids : handleInvoiceSelect(i, id)
    \/ handleBackToDashboard
    \/ \E k \in 1..Len(invoices) : toggleStatus(k)
    \/ \E u \in LoginNames, i \in Ids : deleteInvoice(u, i)
    \/ \E i \in 1..MaxItems, f \in {"name", "qty", "rate", "discount"} :
           \E v \in FieldValues(f) : updateItem(i, f, v)
    \/ \E id \in Ids : addNewRow(id)
    \/ \E i \in 1..MaxItems : deleteRow(i)
    \/ \E i \in 1..MaxItems, id \in Ids : duplicateRow(i, id)
    \/ \E id \in Ids : addPaymentRow(id)
    \/ \E i \in 1..MaxPayments, f \in {"narration", "amount"} :
           \E v \in PaymentValues(f) : updatePayment(i, f, v)
    \/ \E i \in 1..MaxPayments : deletePayment(i)
    \/ \E v \in InvoiceNames : setInvoiceName(v)
    \/ \E v \in Dates : setInvoiceDate(v)
    \/ \E v \in InvoiceStatus : setStatus(v)
    \/ \E id \in Ids : handleSave(id)
    \/ saveDone

Spec == Init /\ [][Next]_vars

\* the same with writes to localStorage that may fail
WriteFailNext == Next \/ handleSaveRejected

WriteFailSpec == Init /\ [][WriteFailNext]_vars

\* calculateRow on its own: any item over the raw values, then its result
CalcItems ==
    {InvoiceItem("a", "", q, r, 0, d, 0, 0) : q \in Qtys, r \in Rates, d \in Discounts}

CalcInit ==
    /\ user = NoUser
    /\ currentView = "dashboard"
    /\ selectedInvoiceId = NoId
    /\ invoices = <<>>
    /\ invoiceName = ""
    /\ invoiceDate = Today
    /\ items = <<>>
    /\ payments = <<>>
    /\ status = PENDING
    /\ isSaving = FALSE
    /\ timer = FALSE
    /\ savedId = NoId
    /\ localStorage = [u \in Users |-> NoData]
    /\ now = 0
    /\ edits = 0
    /\ calcArg \in CalcItems
    /\ calcRes = NoItem

Calc ==
    /\ calcRes = NoItem
    /\ calcRes' = calculateRow(calcArg)
    /\ UNCHANGED <<appVars, invoices, editorVars, localStorage, now, edits, calcArg>>

CalcNext == Calc

CalcSpec == CalcInit /\ [][CalcNext]_vars

\* updateItem on its own: an editing session with one to three rows, then
\* calls of updateItem with any index, those of no row included
IndexRows ==
    {newItem("a"), newItem("b"), SeedItems[1]}

IndexItems ==
    {<<r>> : r \in IndexRows}
        \cup {<<r, newItem("b")>> : r \in IndexRows}
        \cup {<<SeedItems[1], newItem("b"), newItem("a")>>}

IndexInit ==
    /\ user = "u1"
    /\ currentView = "editor"
    /\ selectedInvoiceId = NoId
    /\ invoices = <<>>
    /\ invoiceName = ""
    /\ invoiceDate = Today
    /\ items \in IndexItems
    /\ payments = <<>>
    /\ status = PENDING
    /\ isSaving = FALSE
    /\ timer = FALSE
    /\ savedId = NoId
    /\ localStorage = [u \in Users |-> NoData]
    /\ now = 0
    /\ edits = 0
    /\ calcArg = NoItem
    /\ calcRes = NoItem

IndexNext ==
    \E i \in 0..(MaxItems + 2), f \in {"name", "qty", "rate", "discount"} :
        \E v \in FieldValues(f) : updateItemCalled(i, f, v)

IndexSpec == IndexInit /\ [][IndexNext]_vars

\* ------------------------------------------------------------------------
\* Properties of the editing session and of storage (specification Spec)
\* ------------------------------------------------------------------------

\* the invoice list a store holds for a username
invoicesIn(store, username) ==
    IF store[username] = NoData THEN <<>> ELSE JSONparse(store[username])

idsOf(list) == {list[k].id : k \in 1..Len(list)}

\* C1: in an editing session, however it was opened, and in every stored
\* invoice, the items collection has at least one element.
C1_ItemsNeverEmpty ==
    /\ InEditor => Len(items) >= 1
    /\ \A u \in Users : \A k \in 1..Len(invoicesIn(localStorage, u)) :
           Len(invoicesIn(localStorage, u)[k].items) >= 1

\* C1: handleSave has written an invoice without items, from a session
\* opened on an id that storage no longer held.
C1_SavedWithoutItems ==
    /\ InEditor /\ selectedInvoiceId # NoId /\ savedId = selectedInvoiceId
    /\ \E k \in 1..Len(getInvoices(user)) :
           /\ getInvoices(user)[k].id = savedId
           /\ getInvoices(user)[k].items = <<>>

\* the session has saved and storage still holds what it saved: no edit
\* since, and no removal of the record
SavedAsIs ==
    /\ InEditor /\ savedId # NoId
    /\ \E k \in 1..Len(getInvoices(user)) :
           getInvoices(user)[k] = invoiceData(savedId, getInvoices(user)[k].createdAt)

\* C2: a save that follows a save of the same session with no edit in
\* between writes under the same invoice id and leaves the user's list with
\* the same record ids and the same number of records.
C2_SaveIdempotent ==
    [][(SavedAsIs /\ now' # now) =>
           /\ savedId' = savedId
           /\ idsOf(invoicesIn(localStorage', user)) = idsOf(getInvoices(user))
           /\ Len(invoicesIn(localStorage', user)) = Len(getInvoices(user))]_vars

\* C2: a session opened as a new invoice has saved twice without an edit
\* and storage holds its content under two ids.
C2_SavedUnderTwoIds ==
    /\ InEditor /\ selectedInvoiceId = NoId /\ savedId # NoId
    /\ \E k \in 1..Len(getInvoices(user)) :
           /\ getInvoices(user)[k].id # savedId
           /\ getInvoices(user)[k] =
                  invoiceData(getInvoices(user)[k].id, getInvoices(user)[k].createdAt)

\* C3: a record that is in storage keeps its createdAt under any later
\* handleSave of a session opened on its id and under toggleStatus.
C3_CreatedAtSetOnce ==
    [][\A u \in Users :
           \A k \in 1..Len(invoicesIn(localStorage, u)) :
               \A j \in 1..Len(invoicesIn(localStorage', u)) :
                   (/\ invoicesIn(localStorage, u)[k].id = invoicesIn(localStorage', u)[j].id
                    /\ currentView = "dashboard" \/ selectedInvoiceId # NoId)
                   => invoicesIn(localStorage', u)[j].createdAt
                          = invoicesIn(localStorage, u)[k].createdAt]_vars

\* C3: the invoice stored at reading 0 of the clock was opened, saved again
\* and now carries the reading of that later save.
C3_Restamped ==
    /\ InEditor /\ selectedInvoiceId = SeedInvoice.id /\ savedId = SeedInvoice.id
    /\ items = SeedItems
    /\ \E k \in 1..Len(getInvoices(user)) :
           /\ getInvoices(user)[k].id = SeedInvoice.id
           /\ getInvoices(user)[k].createdAt = now
           /\ now > SeedInvoice.createdAt

Fresh(item) == item = calculateRow(item)

\* C4: each item of the editor and of every stored invoice carries the tp,
\* totalPerPiece and totalAmount that calculateRow computes from its current
\* qty, rate and discount.
C4_DerivedNeverStale ==
    /\ \A i \in 1..Len(items) : Fresh(items[i])
    /\ \A u \in Users : \A k \in 1..Len(invoicesIn(localStorage, u)) :
           \A i \in 1..Len(invoicesIn(localStorage, u)[k].items) :
               Fresh(invoicesIn(localStorage, u)[k].items[i])

\* C4: an item whose discount was edited to -10 (2 pieces at rate 100) has
\* been recalculated and saved: 65.41 a piece, 130.81 in all.
C4_EditedAndSaved ==
    \E k \in 1..Len(invoicesIn(localStorage, "u1")) :
        \E i \in 1..Len(invoicesIn(localStorage, "u1")[k].items) :
            LET item == invoicesIn(localStorage, "u1")[k].items[i]
            IN  /\ item.qty = 2 /\ item.rate = 100 /\ item.discount = 0 - 10
                /\ item.tp = 8550 /\ item.totalPerPiece = 6541
                /\ item.totalAmount = 13081

\* exact sums, in hundredths and in units
RECURSIVE centsOf(_)
centsOf(list) ==
    IF list = <<>> THEN 0 ELSE Head(list).totalAmount + centsOf(Tail(list))

RECURSIVE paidOf(_)
paidOf(list) ==
    IF list = <<>> THEN 0 ELSE Head(list).amount + paidOf(Tail(list))

PlainSums(invoice) ==
    /\ invoice.totalAmount = grandTotalOf(invoice.items)
    /\ invoice.remainingBalance =
           FSub(grandTotalOf(invoice.items), totalPaidOf(invoice.payments))
    /\ toFixed2(invoice.totalAmount) = centsOf(invoice.items)
    /\ toFixed2(invoice.remainingBalance) =
           centsOf(invoice.items) - 100 * paidOf(invoice.payments)

\* C10: in the editor grandTotal is the sum of the items' totalAmount,
\* totalPaid the sum of the payments' amount and remainingBalance their
\* difference, negative when the payments exceed the total; every stored
\* invoice carries the sums of its own items and payments (171.00 with
\* payments of 50 and 30 gives 91.00).
C10_TotalsArePlainSums ==
    /\ toFixed2(grandTotal) = centsOf(items)
    /\ toFixed2(totalPaid) = 100 * paidOf(payments)
    /\ toFixed2(remainingBalance) = centsOf(items) - 100 * paidOf(payments)
    /\ \A u \in Users : \A k \in 1..Len(invoicesIn(localStorage, u)) :
           LET invoice == invoicesIn(localStorage, u)[k]
           IN  /\ PlainSums(invoice)
               /\ (centsOf(invoice.items) = 17100 /\ paidOf(invoice.payments) = 80)
                      => toFixed2(invoice.remainingBalance) = 9100

\* C10: handleSave has written an invoice whose payments of 50 and 30
\* exceed its total of 0: the stored balance is -80.00.
C10_Overpaid ==
    \E k \in 1..Len(invoicesIn(localStorage, "u1")) :
        LET invoice == invoicesIn(localStorage, "u1")[k]
        IN  /\ invoice.createdAt >= 1
            /\ paidOf(invoice.payments) = 80
            /\ toFixed2(invoice.totalAmount) = 0
            /\ toFixed2(invoice.remainingBalance) = 0 - 8000

\* ------------------------------------------------------------------------
\* Properties of calculateRow (specification CalcSpec)
\* ------------------------------------------------------------------------

CalcDone == calcRes # NoItem

\* the prices before toFixed(2), written with the decimals 0.855 and 0.85:
\* rate * 0.855, and base + base * (discount / 100) for base = price * 0.85
unroundedTradePrice(rate) ==
    IF rate > 0 THEN FMul(FInt(rate), FLit(855, 1000)) ELSE FZero

adjusted(base, discount) == FAdd(base, FMul(base, FDivNat(FInt(discount), 100)))

unroundedUnitOf(price, discount) ==
    IF discount # 0 THEN adjusted(FMul(price, FLit(85, 100)), discount) ELSE price

unroundedUnit(rate, discount) == unroundedUnitOf(unroundedTradePrice(rate), discount)

Abs(n) == IF n < 0 THEN 0 - n ELSE n

\* C5 as claimed: totalAmount is the stored, rounded totalPerPiece times qty,
\* rounded to 2 decimals.
C5_TotalFromStoredUnit ==
    CalcDone =>
        calcRes.totalAmount =
            toFixed2(FMul(FCents(calcRes.totalPerPiece), FInt(calcRes.qty)))

\* C5: totalAmount is the unit price before its rounding times qty, rounded
\* to 2 decimals; it lies within (|qty| + 1) / 2 hundredths of the stored
\* totalPerPiece times qty.
C5_TotalFromUnroundedUnit ==
    CalcDone =>
        /\ calcRes.totalAmount =
               toFixed2(FMul(unroundedUnit(calcRes.rate, calcRes.discount),
                             FInt(calcRes.qty)))
        /\ 2 * Abs(calcRes.totalAmount - calcRes.totalPerPiece * calcRes.qty)
               <= Abs(calcRes.qty) + 1

\* C5: 2 pieces at rate 100 and discount -10 come to 130.81 at 65.41 a piece.
C5_TwoPieces ==
    /\ CalcDone
    /\ calcRes.qty = 2 /\ calcRes.rate = 100 /\ calcRes.discount = 0 - 10
    /\ calcRes.totalPerPiece = 6541 /\ calcRes.totalAmount = 13081

\* C6 as claimed: at a discount other than 0, totalPerPiece is the stored,
\* rounded tp times 0.85 times (1 + discount / 100), rounded to 2 decimals.
C6_UnitFromStoredTp ==
    (CalcDone /\ calcRes.discount # 0) =>
        calcRes.totalPerPiece =
            toFixed2(FMul(FMul(FCents(calcRes.tp), FLit(85, 100)),
                          FAdd(FInt(1), FDivNat(FInt(calcRes.discount), 100))))

\* C6: at a discount other than 0, totalPerPiece is base + base * discount /
\* 100 rounded to 2 decimals, for base the trade price before its rounding
\* times 0.85; rate 100, qty 1, discount -10 gives 85.50, 65.41 and 65.41.
C6_UnitFromUnroundedTp ==
    (CalcDone /\ calcRes.discount # 0) =>
        /\ calcRes.totalPerPiece =
               toFixed2(unroundedUnit(calcRes.rate, calcRes.discount))
        /\ (calcRes.rate = 100 /\ calcRes.qty = 1 /\ calcRes.discount = 0 - 10)
               => /\ calcRes.tp = 8550
                  /\ calcRes.totalPerPiece = 6541
                  /\ calcRes.totalAmount = 6541

\* C6: rate 1 at discount 10 is 0.80 a piece with tp stored as 0.85.
C6_RateOne ==
    /\ CalcDone
    /\ calcRes.rate = 1 /\ calcRes.discount = 10
    /\ calcRes.tp = 85 /\ calcRes.totalPerPiece = 80

\* C7: at discount 0 and rate >= 0, tp is rate * 0.855 rounded to 2 decimals
\* and totalPerPiece is tp; rate 100, qty 2 gives 85.50, 85.50 and 171.00.
C7_NoMarginAtZeroDiscount ==
    (CalcDone /\ calcRes.rate >= 0 /\ calcRes.discount = 0) =>
        /\ calcRes.tp = toFixed2(FMul(FInt(calcRes.rate), FLit(855, 1000)))
        /\ calcRes.totalPerPiece = calcRes.tp
        /\ (calcRes.rate = 100 /\ calcRes.qty = 2)
               => /\ calcRes.tp = 8550
                  /\ calcRes.totalAmount = 17100

\* C7: 2 pieces at rate 100 and discount 0 have been priced at 171.00.
C7_Scenario ==
    /\ CalcDone
    /\ calcRes.qty = 2 /\ calcRes.rate = 100 /\ calcRes.discount = 0
    /\ calcRes.tp = 8550 /\ calcRes.totalPerPiece = 8550
    /\ calcRes.totalAmount = 17100

AllZero(item) == item.tp = 0 /\ item.totalPerPiece = 0 /\ item.totalAmount = 0

\* C8 as claimed: qty 0 or rate 0 gives tp, totalPerPiece and totalAmount 0.
C8_ZeroQtyOrRate ==
    (CalcDone /\ (calcRes.qty = 0 \/ calcRes.rate = 0)) => AllZero(calcRes)

\* C8: rate 0 gives tp, totalPerPiece and totalAmount 0; qty 0 gives
\* totalAmount 0 and leaves tp and totalPerPiece the prices of the rate and
\* the discount.
C8_ZeroRateOrZeroTotal ==
    /\ (CalcDone /\ calcRes.rate = 0) => AllZero(calcRes)
    /\ (CalcDone /\ calcRes.qty = 0) =>
           /\ calcRes.totalAmount = 0
           /\ calcRes.tp = toFixed2(unroundedTradePrice(calcRes.rate))
           /\ calcRes.totalPerPiece =
                  toFixed2(unroundedUnit(calcRes.rate, calcRes.discount))

\* C8: no piece at rate 100 is priced 85.50 a piece and 0 in all.
C8_NoPieces ==
    /\ CalcDone
    /\ calcRes.qty = 0 /\ calcRes.rate = 100 /\ calcRes.discount = 0
    /\ calcRes.tp = 8550 /\ calcRes.totalPerPiece = 8550
    /\ calcRes.totalAmount = 0

Max0(n) == IF n < 0 THEN 0 ELSE n

InsertedAfter(index, entry) ==
    /\ Len(items') = Len(items) + 1
    /\ \A k \in 1..index : items'[k] = items[k]
    /\ items'[index + 1] = entry
    /\ \A k \in (index + 1)..Len(items) : items'[k + 1] = items[k]

SameRows(before, after) ==
    /\ Len(after) = Len(before)
    /\ \A k \in 1..Len(before) : after[k] = before[k]

\* C13: a call of updateItem with an index that is not the index of a row
\* leaves items with the same length and the same elements.
C13_OutOfRangeChangesNothing ==
    [][\A i \in 0..(MaxItems + 2), f \in {"name", "qty", "rate", "discount"} :
           \A v \in FieldValues(f) :
               (updateItemCalled(i, f, v) /\ i \notin 1..Len(items))
                   => SameRows(items, items')]_vars

\* C13: updateItem(items.length, 'qty', 2) on one row has appended an object
\* with qty alone among the raw fields and NaN for its totals.
C13_PartialRowAppended ==
    /\ Len(items) = 2
    /\ IsItem(items[1])
    /\ items[2] = [qty |-> 2, tp |-> 0, totalPerPiece |-> NaN, totalAmount |-> NaN]

\* ------------------------------------------------------------------------
\* Properties of a save whose write fails (specification WriteFailSpec)
\* ------------------------------------------------------------------------

\* C14: a failed write leaves the session able to save again: whenever the
\* Save button is disabled (isSaving), the timer whose expiry enables it
\* again is pending.
C14_SaveCanBeRetried == (InEditor /\ isSaving) => timer

\* C14: a write has failed in a session that stored nothing: items, name
\* and the rest are as they were, isSaving is true and no timer is pending.
C14_SaveDisabledForGood ==
    /\ InEditor /\ isSaving /\ ~timer
    /\ invoiceName # "" /\ Len(items) >= 1
    /\ savedId = NoId

\* ------------------------------------------------------------------------
\* Properties of storage (specification Spec)
\* ------------------------------------------------------------------------

\* the record a list holds under an id
recordOf(list, id) == list[findIndex(list, id)]

Holds(list, id) == findIndex(list, id) >= 1

Upserted(before, after, id) ==
    IF Holds(before, id)
    THEN /\ Len(after) = Len(before)
         /\ after[findIndex(before, id)].id = id
         /\ \A k \in 1..Len(before) :
                k # findIndex(before, id) => after[k] = before[k]
    ELSE /\ Len(after) = Len(before) + 1
         /\ after[Len(after)].id = id
         /\ \A k \in 1..Len(before) : after[k] = before[k]

DistinctIds(list) ==
    \A j \in 1..Len(list), k \in 1..Len(list) : list[j].id = list[k].id => j = k

\* C16: whatever sequence of saveInvoice and deleteInvoice ran, a username's
\* list holds at most one record per id; a save (by handleSave or by
\* toggleStatus) replaces the record of its id in place or appends it and
\* leaves the records of other ids as they were; deleteInvoice leaves the
\* records of other ids in order; no step changes the list of a username
\* other than the one logged in.
C16_UpsertById ==
    /\ [](\A u \in Users : DistinctIds(invoicesIn(localStorage, u)))
    /\ [][/\ \A u \in Users : u # user => localStorage'[u] = localStorage[u]
          /\ \A id \in Ids :
                 (handleSave(id) /\ invoiceName # "") =>
                     Upserted(invoicesIn(localStorage, user),
                              invoicesIn(localStorage', user), savedId')
          /\ \A k \in 1..Len(invoices) :
                 toggleStatus(k) =>
                     Upserted(invoicesIn(localStorage, user),
                              invoicesIn(localStorage', user), invoices[k].id)
          /\ \A u \in LoginNames, i \in Ids :
                 deleteInvoice(u, i) =>
                     invoicesIn(localStorage', u) =
                         SelectSeq(invoicesIn(localStorage, u),
                                   LAMBDA inv : inv.id # i)]_vars

\* C16: the stored invoice a was saved again and stayed first, a new invoice
\* b was appended after it, and the list of u2 is the one it started with.
C16_ReplacedThenAppended ==
    /\ user = "u1"
    /\ Len(invoicesIn(localStorage, "u1")) = 2
    /\ invoicesIn(localStorage, "u1")[1].id = "a"
    /\ invoicesIn(localStorage, "u1")[1].createdAt = 1
    /\ invoicesIn(localStorage, "u1")[2].id = "b"
    /\ invoicesIn(localStorage, "u1")[2].createdAt = 2
    /\ invoicesIn(localStorage, "u2") = <<SeedInvoice>>

\* ------------------------------------------------------------------------
\* Properties of the editor's handlers (specification Spec)
\* ------------------------------------------------------------------------

RawFields == {"name", "qty", "rate", "discount"}

\* C17: updateItem(index, field, value) on a rendered row sets that field of
\* that item to value and keeps its id and its other entered fields; on qty,
\* rate or discount the item's tp, totalPerPiece and totalAmount become those
\* calculateRow derives from its entered values, on name they stay as they
\* were; every other item, the length and order of items, and payments are
\* unchanged.
C17_UpdateChangesOneItem ==
    [][\A i \in 1..MaxItems, f \in RawFields : \A v \in FieldValues(f) :
           updateItem(i, f, v) =>
               /\ Len(items') = Len(items)
               /\ \A k \in 1..Len(items) : k # i => items'[k] = items[k]
               /\ items'[i].id = items[i].id
               /\ items'[i][f] = v
               /\ \A g \in RawFields \ {f} : items'[i][g] = items[i][g]
               /\ IF f = "name"
                  THEN /\ items'[i].tp = items[i].tp
                       /\ items'[i].totalPerPiece = items[i].totalPerPiece
                       /\ items'[i].totalAmount = items[i].totalAmount
                  ELSE Fresh(items'[i])
               /\ payments' = payments]_vars

\* C17: in a session on the stored invoice a row was added and its rate set
\* to 100: the second row has tp 85.50, the first row and the payments are
\* those that were loaded.
C17_SecondRowEdited ==
    /\ InEditor /\ selectedInvoiceId # NoId
    /\ Len(items) = 2
    /\ items[1] = SeedItems[1]
    /\ items[2].rate = 100 /\ items[2].qty = 0 /\ items[2].tp = 8550
    /\ items[2].totalAmount = 0
    /\ payments = SeedPayments

\* a step wrote a record: some username's list holds a record afterwards
\* that it did not hold before
RecordWritten ==
    \E u \in Users :
        \E k \in 1..Len(invoicesIn(localStorage', u)) :
            \A j \in 1..Len(invoicesIn(localStorage, u)) :
                invoicesIn(localStorage, u)[j] # invoicesIn(localStorage', u)[k]

EmptyNameWritesNothing ==
    \A id \in Ids :
        (handleSave(id) /\ invoiceName = "") =>
            UNCHANGED <<localStorage, isSaving, items, payments, invoiceDate, status>>

NamedSave == \E id \in Ids : handleSave(id) /\ invoiceName # ""

\* C18 as stated: handleSave with an empty name leaves storage, isSaving,
\* items, payments, date and status as they are, and only a handleSave with
\* a non-empty name writes a record to storage.
C18_OnlyNamedSaveWrites ==
    [][EmptyNameWritesNothing /\ (RecordWritten => NamedSave)]_vars

\* C18: handleSave with an empty name leaves storage, isSaving, items,
\* payments, date and status as they are; a record is written to storage by a
\* handleSave with a non-empty name or by toggleStatus, which writes a stored
\* record again with its status flipped; so every stored record has a name.
C18_NamedSaveOrToggleWrites ==
    /\ [](\A u \in Users : \A k \in 1..Len(invoicesIn(localStorage, u)) :
              invoicesIn(localStorage, u)[k].name # "")
    /\ [][/\ EmptyNameWritesNothing
          /\ RecordWritten =>
                 \/ NamedSave
                 \/ \E k \in 1..Len(invoices) : toggleStatus(k)]_vars

\* C18: toggleStatus wrote the stored invoice as PAID, and in a session on a
\* new invoice with two edits made and no name given Save is enabled and has
\* stored nothing.
C18_ToggledThenUnnamed ==
    /\ InEditor /\ selectedInvoiceId = NoId /\ ~isSaving /\ invoiceName = ""
    /\ edits = 2 /\ items[1].qty = 2 /\ items[1].rate = 100
    /\ invoicesIn(localStorage, user) = <<[SeedInvoice EXCEPT !.status = PAID]>>

====
